---- MODULE Spec2Model ----
(***************************************************************************)
(* Model of torch/utils/_benchmark/utils/timer.py: the Timer facade, the   *)
(* block size estimator and the threaded measurement loop.                 *)
(*                                                                         *)
(* Durations are exact integers counted in ticks of 0.01 s (0.2 s = 20,    *)
(* 0.05 s = 5); the timed callable, the hooks and meets_confidence are     *)
(* opaque collaborators and answer nondeterministically.                   *)
(***************************************************************************)
EXTENDS Integers, Sequences, FiniteSets, TLC

\* ---------------------------------------------------------------- bounds
MaxSamples == 4
MaxSteps == 2
HostThreads == 2

\* ------------------------------------------------------ program constants
num_threads == 1
RelativeOverheadInv == 10000
MinRunTimeDivisor == 1000
OverheadRepeats == 5
AdaptiveThresholdLen == 3
AdaptiveBlockMinRunTime == 5
GrowthFactor == 10
WarmupDivisor == 100

\* ------------------------------------------------------------ input sets
None == <<>>
Some(x) == <<x>>
NoSpeedup == <<>>
ZeroSpeedup == <<0, 1>>

TimeitNumbers == {-1, 0, 1, 100, 250}
LoopNumbers == {10}
SampleTimes(lo) == {t \in {0, 1, 2} : t >= lo}
MinRunTimes == {0, 1, 2, 3}
MaxRunTimes == {None, Some(0), Some(1), Some(2)}
CalTimes == {0, 1, 10000}
OverheadTimes == {0, 1}
UncachedTimes == {0, 1}
EstMinRunTimes == {0, 5, 2000}

VARIABLES
    pc, op,
    minDur, confident,
    number, min_run_time, max_run_time, callback, stop_hook,
    est_min_run_time, check_cache_speedup,
    total_time, can_stop, times,
    overhead, uncached_time, cache_speedup, time_taken, cal,
    torch_threads, saved,
    calls, cbLog, hookLog, hook_last, hook_true,
    times_id, prev,
    result

env == <<minDur, confident>>
args == <<op, min_run_time, max_run_time, callback, stop_hook,
          est_min_run_time, check_cache_speedup>>
loopLocals == <<total_time, can_stop, times>>
estLocals == <<overhead, uncached_time, cache_speedup, time_taken, cal>>
scope == <<torch_threads, saved>>
logs == <<calls, cbLog, hookLog>>
\* what the stop-hook returned: its latest result, and whether any was true
hookGhost == <<hook_last, hook_true>>
\* list objects: the identity of the list bound to `times`, and the times list
\* of an earlier record that the caller still holds
heap == <<times_id, prev>>
vars == <<pc, number, env, args, loopLocals, estLocals, scope, logs, hookGhost,
          heap, result>>

\* ------------------------------------------------------------ arithmetic
Max(a, b) == IF a >= b THEN a ELSE b

RECURSIVE Sum(_)
Sum(s) == IF s = <<>> THEN 0 ELSE Head(s) + Sum(Tail(s))

RECURSIVE GCD(_, _)
GCD(a, b) == IF b = 0 THEN a ELSE GCD(b, a % b)

\* faulty variant: the uncached time divided by the block time, not the per-call time
Ratio_PerBlock(a, b) ==
    <<(a \div number) \div GCD(a \div number, b), b \div GCD(a \div number, b)>>

\* the float a / b as a reduced fraction, b > 0
Ratio(a, b) == <<a \div GCD(a, b), b \div GCD(a, b)>>

\* np.median of an odd-length list: its middle order statistic
Median(s) ==
    CHOOSE v \in {s[i] : i \in DOMAIN s} :
        /\ 2 * Cardinality({i \in DOMAIN s : s[i] <= v}) > Len(s)
        /\ 2 * Cardinality({i \in DOMAIN s : s[i] >= v}) > Len(s)

\* ------------------------------------------------------------- records
NoResult ==
    [kind |-> "none", number_per_run |-> 0, times |-> <<>>, num_threads |-> 0,
     cache_speedup |-> NoSpeedup, error |-> "none"]

\* Timer._construct_measurement
Measurement(n, ts) ==
    [kind |-> "record", number_per_run |-> n, times |-> ts,
     num_threads |-> num_threads, cache_speedup |-> NoSpeedup, error |-> "none"]

\* Measurement.set_cache_speedup
SetCacheSpeedup(m, cs) == [m EXCEPT !.cache_speedup = cs]

\* the caller holds no earlier record
NoPrev == [id |-> 0, times |-> <<>>]

\* faulty variant: one list object shared by all calls (a mutable default)
NewList_Shared ==
    IF prev.id = 0 THEN [id |-> 1, items |-> <<>>]
                   ELSE [id |-> prev.id, items |-> prev.times]

\* `times = []`: a new empty list object, distinct from the one still held
NewList == [id |-> IF prev.id = 1 THEN 2 ELSE 1, items |-> <<>>]

Error(e) == [NoResult EXCEPT !.kind = "error", !.error = e]

\* one invocation of the timed callable: repeats, purpose, thread count in force
Call(n, what) == [n |-> n, what |-> what, threads |-> torch_threads]

\* --------------------------------------------------- scoped thread count
ScopeEnter ==
    /\ saved' = Append(saved, torch_threads)
    /\ torch_threads' = num_threads

ScopeExit ==
    /\ torch_threads' = saved[Len(saved)]
    /\ saved' = SubSeq(saved, 1, Len(saved) - 1)

\* ---------------------------------------------------------------- Init
Init ==
    /\ pc = "idle"
    /\ op = "none"
    /\ minDur = 0
    /\ confident = "never"
    /\ number = 0
    /\ min_run_time = 0
    /\ max_run_time = None
    /\ callback = FALSE
    /\ stop_hook = "none"
    /\ est_min_run_time = 0
    /\ check_cache_speedup = FALSE
    /\ total_time = 0
    /\ can_stop = FALSE
    /\ times = <<>>
    /\ overhead = 0
    /\ uncached_time = 0
    /\ cache_speedup = ZeroSpeedup
    /\ time_taken = 0
    /\ cal = <<>>
    /\ torch_threads = HostThreads
    /\ saved = <<>>
    /\ calls = <<>>
    /\ cbLog = <<>>
    /\ hookLog = <<>>
    /\ hook_last = None
    /\ hook_true = FALSE
    /\ times_id = 0
    /\ prev = NoPrev
    /\ result = NoResult

\* -------------------------------------------------------- Timer.timeit
\* faulty variant: the warm-up count without its floor of one
WarmupNumber_NoFloor(n) == n \div WarmupDivisor

WarmupNumber(n) == Max(n \div WarmupDivisor, 1)

timeit ==
    /\ pc = "idle"
    /\ UNCHANGED <<heap, hookGhost>>
    /\ \E n \in TimeitNumbers : number' = n
    /\ op' = "timeit"
    /\ pc' = "timeit_warmup"
    /\ UNCHANGED <<env, min_run_time, max_run_time, callback, stop_hook,
                   est_min_run_time, check_cache_speedup,
                   loopLocals, estLocals, scope, logs, result>>

TimeitWarmup ==
    /\ pc = "timeit_warmup"
    /\ UNCHANGED <<heap, hookGhost>>
    /\ calls' = Append(calls, Call(WarmupNumber(number), "warmup"))
    /\ pc' = "timeit_enter"
    /\ UNCHANGED <<number, env, args, loopLocals, estLocals, scope,
                   cbLog, hookLog, result>>

TimeitWarmupRaise ==
    /\ pc = "timeit_warmup"
    /\ UNCHANGED <<heap, hookGhost>>
    /\ calls' = Append(calls, Call(WarmupNumber(number), "warmup"))
    /\ result' = Error("WorkError")
    /\ pc' = "done"
    /\ UNCHANGED <<number, env, args, loopLocals, estLocals, scope,
                   cbLog, hookLog>>

TimeitEnter ==
    /\ pc = "timeit_enter"
    /\ UNCHANGED <<heap, hookGhost>>
    /\ ScopeEnter
    /\ pc' = "timeit_sample"
    /\ UNCHANGED <<number, env, args, loopLocals, estLocals, logs, result>>

TimeitSample ==
    /\ pc = "timeit_sample"
    /\ times_id' = NewList.id
    /\ UNCHANGED <<prev, hookGhost>>
    /\ \E t \in SampleTimes(minDur) :
        /\ times' = <<t>>
        /\ result' = Measurement(number, <<t>>)
    /\ calls' = Append(calls, Call(number, "sample"))
    /\ ScopeExit
    /\ pc' = "done"
    /\ UNCHANGED <<number, env, args, total_time, can_stop, estLocals,
                   cbLog, hookLog>>

TimeitSampleRaise ==
    /\ pc = "timeit_sample"
    /\ UNCHANGED <<heap, hookGhost>>
    /\ calls' = Append(calls, Call(number, "sample"))
    /\ result' = Error("WorkError")
    /\ ScopeExit
    /\ pc' = "done"
    /\ UNCHANGED <<number, env, args, loopLocals, estLocals, cbLog, hookLog>>

\* --------------------------------------- Timer.repeat, Timer.autorange
\* faulty variant: repeat falls through to the timing path of timeit
repeat_Delegates ==
    /\ pc = "idle"
    /\ UNCHANGED <<heap, hookGhost>>
    /\ \E n \in TimeitNumbers : number' = n
    /\ op' = "repeat"
    /\ pc' = "timeit_warmup"
    /\ UNCHANGED <<env, min_run_time, max_run_time, callback, stop_hook,
                   est_min_run_time, check_cache_speedup,
                   loopLocals, estLocals, scope, logs, result>>

repeat ==
    /\ pc = "idle"
    /\ UNCHANGED <<heap, hookGhost>>
    /\ \E n \in TimeitNumbers : number' = n
    /\ op' = "repeat"
    /\ result' = Error("NotImplementedError")
    /\ pc' = "done"
    /\ UNCHANGED <<env, min_run_time, max_run_time, callback, stop_hook,
                   est_min_run_time, check_cache_speedup,
                   loopLocals, estLocals, scope, logs>>

autorange ==
    /\ pc = "idle"
    /\ UNCHANGED <<heap, hookGhost>>
    /\ \E cb \in BOOLEAN : callback' = cb
    /\ op' = "autorange"
    /\ result' = Error("NotImplementedError")
    /\ pc' = "done"
    /\ UNCHANGED <<env, number, min_run_time, max_run_time, stop_hook,
                   est_min_run_time, check_cache_speedup,
                   loopLocals, estLocals, scope, logs>>

\* ------------------------------------------- Timer._estimate_block_size
_estimate_block_size ==
    /\ pc = "idle"
    /\ UNCHANGED <<heap, hookGhost>>
    /\ \E m \in EstMinRunTimes : est_min_run_time' = m
    /\ \E c \in BOOLEAN : check_cache_speedup' = c
    /\ op' = "_estimate_block_size"
    /\ pc' = "est_overhead"
    /\ UNCHANGED <<env, number, min_run_time, max_run_time, callback, stop_hook,
                   loopLocals, estLocals, scope, logs, result>>

RECURSIVE Repeat(_, _)
Repeat(x, k) == IF k = 0 THEN <<>> ELSE <<x>> \o Repeat(x, k - 1)

EstOverhead ==
    /\ pc = "est_overhead"
    /\ UNCHANGED <<heap, hookGhost>>
    /\ \E s \in [1..OverheadRepeats -> OverheadTimes] : overhead' = Median(s)
    /\ calls' = calls \o Repeat(Call(0, "overhead"), OverheadRepeats)
    /\ cache_speedup' = ZeroSpeedup
    /\ uncached_time' = 0
    /\ pc' = "est_probe"
    /\ UNCHANGED <<number, env, args, loopLocals, time_taken, cal, scope,
                   cbLog, hookLog, result>>

\* lines 128-129 with Timer._measure_uncached_runtime
EstProbe ==
    /\ pc = "est_probe"
    /\ UNCHANGED <<heap, hookGhost>>
    /\ IF check_cache_speedup
       THEN /\ \E u \in UncachedTimes : uncached_time' = u
            /\ calls' = Append(calls, Call(1, "uncached"))
       ELSE UNCHANGED <<uncached_time, calls>>
    /\ pc' = "est_enter"
    /\ UNCHANGED <<number, env, args, loopLocals, overhead, cache_speedup,
                   time_taken, cal, scope, cbLog, hookLog, result>>

EstProbeRaise ==
    /\ pc = "est_probe"
    /\ UNCHANGED <<heap, hookGhost>>
    /\ check_cache_speedup
    /\ calls' = Append(calls, Call(1, "uncached"))
    /\ result' = Error("WorkError")
    /\ pc' = "done"
    /\ UNCHANGED <<number, env, args, loopLocals, estLocals, scope, cbLog, hookLog>>

EstEnter ==
    /\ pc = "est_enter"
    /\ UNCHANGED <<heap, hookGhost>>
    /\ number' = 1
    /\ ScopeEnter
    /\ pc' = "est_loop"
    /\ UNCHANGED <<env, args, loopLocals, estLocals, logs, result>>

\* overhead / time_taken <= 1e-4; a zero time_taken gives inf or nan, never <=
RelativeOverheadOk(o, t) == t > 0 /\ o * RelativeOverheadInv <= t

\* faulty variant: no early exit once a block outlasts min_run_time
EstBreak_NoEarlyExit(o, t, m) ==
    RelativeOverheadOk(o, t) /\ t * MinRunTimeDivisor >= m

\* the two break conditions of the calibration loop
EstBreak(o, t, m) ==
    \/ RelativeOverheadOk(o, t) /\ t * MinRunTimeDivisor >= m
    \/ t > m

\* float division uncached_time / (time_taken / number) faults on a zero divisor
CacheSpeedupFaults(t) == t = 0

EstIterate ==
    /\ pc = "est_loop"
    /\ UNCHANGED <<heap, hookGhost>>
    /\ \E t \in CalTimes :
        /\ time_taken' = t
        /\ cal' = Append(cal, <<number, t>>)
        /\ IF check_cache_speedup /\ CacheSpeedupFaults(t)
           THEN /\ result' = Error("ZeroDivisionError")
                /\ ScopeExit
                /\ pc' = "done"
                /\ UNCHANGED <<number, cache_speedup>>
           ELSE /\ cache_speedup' = IF check_cache_speedup
                                    THEN Ratio(uncached_time * number, t)
                                    ELSE cache_speedup
                /\ IF EstBreak(overhead, t, est_min_run_time)
                   THEN /\ pc' = "est_return"
                        /\ UNCHANGED number
                   ELSE /\ Len(cal) < MaxSteps
                        /\ number' = number * GrowthFactor
                        /\ pc' = "est_loop"
                /\ UNCHANGED <<result, scope>>
    /\ calls' = Append(calls, Call(number, "calibrate"))
    /\ UNCHANGED <<env, args, loopLocals, overhead, uncached_time, cbLog, hookLog>>

EstIterateRaise ==
    /\ pc = "est_loop"
    /\ UNCHANGED <<heap, hookGhost>>
    /\ calls' = Append(calls, Call(number, "calibrate"))
    /\ result' = Error("WorkError")
    /\ ScopeExit
    /\ pc' = "done"
    /\ UNCHANGED <<number, env, args, loopLocals, estLocals, cbLog, hookLog>>

Estimate(n, cs) ==
    [NoResult EXCEPT !.kind = "estimate", !.number_per_run = n, !.cache_speedup = cs]

EstReturn ==
    /\ pc = "est_return"
    /\ UNCHANGED <<heap, hookGhost>>
    /\ ScopeExit
    /\ IF op = "_estimate_block_size"
       THEN /\ result' = Estimate(number, cache_speedup)
            /\ pc' = "done"
            /\ UNCHANGED estLocals
       ELSE /\ pc' = "loop_enter"
            /\ overhead' = 0
            /\ uncached_time' = 0
            /\ time_taken' = 0
            /\ cal' = <<>>
            /\ UNCHANGED <<result, cache_speedup>>
    /\ UNCHANGED <<number, env, args, loopLocals, logs>>

\* ------------------------------------- Timer._threaded_measurement_loop
_threaded_measurement_loop ==
    /\ pc = "idle"
    /\ UNCHANGED <<heap, hookGhost>>
    /\ \E n \in LoopNumbers : number' = n
    /\ \E m \in MinRunTimes : min_run_time' = m
    /\ \E m \in MaxRunTimes : max_run_time' = m
    /\ \E cb \in BOOLEAN : callback' = cb
    /\ stop_hook' = "free"
    /\ \E lo \in {0, 1} : minDur' = lo
    /\ op' = "_threaded_measurement_loop"
    /\ pc' = "loop_enter"
    /\ UNCHANGED <<confident, est_min_run_time, check_cache_speedup,
                   loopLocals, estLocals, scope, logs, result>>

blocked_autorange ==
    /\ pc = "idle"
    /\ UNCHANGED <<heap, hookGhost>>
    /\ \E m \in MinRunTimes : min_run_time' = m /\ est_min_run_time' = m
    /\ \E cb \in BOOLEAN : callback' = cb
    /\ max_run_time' = None
    /\ stop_hook' = "always_true"
    /\ check_cache_speedup' = TRUE
    /\ \E lo \in {0, 1} : minDur' = lo
    /\ op' = "blocked_autorange"
    /\ pc' = "est_overhead"
    /\ UNCHANGED <<confident, number, loopLocals, estLocals, scope, logs, result>>

adaptive_autorange ==
    /\ pc = "idle"
    /\ UNCHANGED <<heap, hookGhost>>
    /\ \E m \in MinRunTimes : min_run_time' = m
    /\ \E m \in MaxRunTimes : max_run_time' = m
    /\ \E cb \in BOOLEAN : callback' = cb
    /\ est_min_run_time' = AdaptiveBlockMinRunTime
    /\ stop_hook' = "adaptive"
    /\ check_cache_speedup' = TRUE
    /\ \E lo \in {0, 1} : minDur' = lo
    /\ \E c \in {"never", "any"} : confident' = c
    /\ op' = "adaptive_autorange"
    /\ pc' = "est_overhead"
    /\ UNCHANGED <<number, loopLocals, estLocals, scope, logs, result>>

\* Measurement.meets_confidence, an opaque collaborator
MeetsConfidence == IF confident = "never" THEN {FALSE} ELSE BOOLEAN

\* the values stop_hook(times) can return
\* faulty variant: the confidence test consulted from the third sample on
StopHookResults_FromThird(hook, ts) ==
    CASE hook = "always_true" -> {TRUE}
      [] hook = "adaptive" ->
            IF Len(ts) >= AdaptiveThresholdLen THEN MeetsConfidence ELSE {FALSE}
      [] OTHER -> BOOLEAN

StopHookResults(hook, ts) ==
    CASE hook = "always_true" -> {TRUE}
      [] hook = "adaptive" ->
            IF Len(ts) > AdaptiveThresholdLen THEN MeetsConfidence ELSE {FALSE}
      [] OTHER -> BOOLEAN

\* faulty variant: the two loop conditions joined by "and"
LoopCond_And(total, minrt, stop) == total < minrt /\ ~stop

\* faulty variant: the duration floor compared with <=
LoopCond_Leq(total, minrt, stop) == total <= minrt \/ ~stop

\* faulty variant: the stop-hook alone ends the loop
LoopCond_StopOnly(total, minrt, stop) == ~stop

\* while (total_time < min_run_time) or (not can_stop)
LoopCond(total, minrt, stop) == total < minrt \/ ~stop

\* faulty variant: the ceiling compared with the last sample, not the total
MaxExceeded_LastSample(maxrt, total) ==
    maxrt # None /\ maxrt[1] # 0 /\ times[Len(times)] > maxrt[1]

\* faulty variant: the ceiling tested against None, so that 0 is a ceiling
MaxExceeded_ZeroCounts(maxrt, total) == maxrt # None /\ total > maxrt[1]

\* if max_run_time and total_time > max_run_time
MaxExceeded(maxrt, total) == maxrt # None /\ maxrt[1] # 0 /\ total > maxrt[1]

\* faulty variant: the callback is never invoked
AfterSample_NoCallback(cb) == "stop_hook"

\* if callback: callback(number, time_spent)
AfterSample(cb) == IF cb THEN "callback" ELSE "stop_hook"

LoopEnter ==
    /\ pc = "loop_enter"
    /\ times_id' = NewList.id
    /\ hook_last' = None
    /\ hook_true' = FALSE
    /\ UNCHANGED prev
    /\ total_time' = 0
    /\ can_stop' = FALSE
    /\ times' = NewList.items
    /\ ScopeEnter
    /\ pc' = "loop_test"
    /\ UNCHANGED <<number, env, args, estLocals, logs, result>>

TimeHook ==
    /\ pc = "loop_test"
    /\ UNCHANGED <<times_id, hookGhost>>
    /\ LoopCond(total_time, min_run_time, can_stop)
    /\ Len(times) < MaxSamples
    /\ \E time_spent \in SampleTimes(minDur) :
        /\ times' = Append(times, time_spent)
        /\ total_time' = total_time + time_spent
        /\ prev' = IF prev.id = times_id
                   THEN [prev EXCEPT !.times = Append(times, time_spent)]
                   ELSE prev
    /\ calls' = Append(calls, Call(number, "sample"))
    /\ pc' = AfterSample(callback)
    /\ UNCHANGED <<number, env, args, can_stop, estLocals, scope,
                   cbLog, hookLog, result>>

\* the result handed to the caller of the running strategy
LoopResult ==
    IF op = "_threaded_measurement_loop"
    THEN [NoResult EXCEPT !.kind = "times", !.times = times]
    ELSE SetCacheSpeedup(Measurement(number, times), cache_speedup)

\* faulty variant: the thread count is restored by hand, not on the exceptional path
Propagate_NoRelease(e) ==
    /\ result' = Error(e)
    /\ UNCHANGED scope
    /\ pc' = "done"

\* an exception leaving the with block: the scope is released, nothing is returned
Propagate(e) ==
    /\ result' = Error(e)
    /\ ScopeExit
    /\ pc' = "done"

TimeHookRaise ==
    /\ pc = "loop_test"
    /\ UNCHANGED <<heap, hookGhost>>
    /\ LoopCond(total_time, min_run_time, can_stop)
    /\ calls' = Append(calls, Call(number, "sample"))
    /\ Propagate("WorkError")
    /\ UNCHANGED <<number, env, args, loopLocals, estLocals, cbLog, hookLog>>

Callback ==
    /\ pc = "callback"
    /\ UNCHANGED <<heap, hookGhost>>
    /\ cbLog' = Append(cbLog, <<number, times[Len(times)]>>)
    /\ pc' = "stop_hook"
    /\ UNCHANGED <<number, env, args, loopLocals, estLocals, scope,
                   calls, hookLog, result>>

CallbackRaise ==
    /\ pc = "callback"
    /\ UNCHANGED <<heap, hookGhost>>
    /\ cbLog' = Append(cbLog, <<number, times[Len(times)]>>)
    /\ Propagate("CallbackError")
    /\ UNCHANGED <<number, env, args, loopLocals, estLocals, calls, hookLog>>

\* the provisional record of adaptive_autorange's stop_hook, built once more
\* than three samples exist
Provisional(hook, ts) ==
    IF hook = "adaptive" /\ Len(ts) > AdaptiveThresholdLen
    THEN Measurement(number, ts)
    ELSE NoResult

HookEval ==
    [n |-> Len(times), total |-> total_time,
     provisional |-> Provisional(stop_hook, times)]

\* faulty variant: can_stop as a latch, once true it stays true
NextCanStop_Latch(old, b) == old \/ b

\* can_stop = stop_hook(times)
NextCanStop(old, b) == b

StopHook ==
    /\ pc = "stop_hook"
    /\ UNCHANGED heap
    /\ \E b \in StopHookResults(stop_hook, times) :
          /\ can_stop' = NextCanStop(can_stop, b)
          /\ hook_last' = Some(b)
          /\ hook_true' = (hook_true \/ b)
    /\ hookLog' = Append(hookLog, HookEval)
    /\ IF MaxExceeded(max_run_time, total_time)
       THEN /\ result' = LoopResult
            /\ ScopeExit
            /\ pc' = "done"
       ELSE /\ pc' = "loop_test"
            /\ UNCHANGED <<scope, result>>
    /\ UNCHANGED <<number, env, args, total_time, times, estLocals, calls, cbLog>>

StopHookRaise ==
    /\ pc = "stop_hook"
    /\ UNCHANGED <<heap, hookGhost>>
    /\ stop_hook # "always_true"
    /\ Len(times) > AdaptiveThresholdLen \/ stop_hook = "free"
    /\ hookLog' = Append(hookLog, HookEval)
    /\ Propagate("StopHookError")
    /\ UNCHANGED <<number, env, args, loopLocals, estLocals, calls, cbLog>>

LoopReturn ==
    /\ pc = "loop_test"
    /\ UNCHANGED <<heap, hookGhost>>
    /\ ~LoopCond(total_time, min_run_time, can_stop)
    /\ result' = LoopResult
    /\ ScopeExit
    /\ pc' = "done"
    /\ UNCHANGED <<number, env, args, loopLocals, estLocals, logs>>

\* ---------------------------------------------------------------- calls
\* the call is over; the caller holds on to `kept` of what it returned
Return(kept) ==
    /\ pc = "done"
    /\ prev' = kept
    /\ times_id' = 0
    /\ hook_last' = None
    /\ hook_true' = FALSE
    /\ pc' = "idle"
    /\ op' = "none"
    /\ number' = 0
    /\ min_run_time' = 0
    /\ max_run_time' = None
    /\ callback' = FALSE
    /\ stop_hook' = "none"
    /\ est_min_run_time' = 0
    /\ check_cache_speedup' = FALSE
    /\ total_time' = 0
    /\ can_stop' = FALSE
    /\ times' = <<>>
    /\ overhead' = 0
    /\ uncached_time' = 0
    /\ cache_speedup' = ZeroSpeedup
    /\ time_taken' = 0
    /\ cal' = <<>>
    /\ calls' = <<>>
    /\ cbLog' = <<>>
    /\ hookLog' = <<>>
    /\ result' = NoResult
    /\ minDur' = 0
    /\ confident' = "never"
    /\ UNCHANGED scope

\* the caller drops the result
Finish == Return(NoPrev)

\* the caller keeps the times list of the returned record
FinishKeep ==
    /\ result.kind = "record"
    /\ Return([id |-> times_id, times |-> result.times])

\* the caller empties the times list of the record it holds; every name bound
\* to the same list object sees the change
MutatePrev ==
    /\ pc \in {"loop_test", "done"}
    /\ prev.id # 0
    /\ prev.times # <<>>
    /\ prev' = [prev EXCEPT !.times = <<>>]
    /\ times' = IF times_id = prev.id THEN <<>> ELSE times
    /\ result' = IF times_id = prev.id /\ result.kind = "record"
                 THEN [result EXCEPT !.times = <<>>]
                 ELSE result
    /\ UNCHANGED <<pc, number, env, args, total_time, can_stop, estLocals,
                   scope, logs, hookGhost, times_id>>

Next ==
    \/ timeit \/ TimeitWarmup \/ TimeitWarmupRaise \/ TimeitEnter
    \/ TimeitSample \/ TimeitSampleRaise
    \/ repeat \/ autorange
    \/ _estimate_block_size \/ EstOverhead \/ EstProbe \/ EstProbeRaise
    \/ EstEnter \/ EstIterate \/ EstIterateRaise \/ EstReturn
    \/ _threaded_measurement_loop \/ blocked_autorange \/ adaptive_autorange
    \/ LoopEnter \/ TimeHook \/ TimeHookRaise \/ Callback \/ CallbackRaise
    \/ StopHook \/ StopHookRaise \/ LoopReturn
    \/ Finish

Spec == Init /\ [][Next]_vars

\* adaptive_autorange alone, with collaborators that raise nothing
AdaptiveNext ==
    \/ adaptive_autorange
    \/ EstOverhead \/ EstProbe \/ EstEnter \/ EstIterate \/ EstReturn
    \/ LoopEnter \/ TimeHook \/ Callback \/ StopHook \/ LoopReturn
    \/ Finish

\* The single thread of control of a call always takes its next step.
AdaptiveSpec == Init /\ [][AdaptiveNext]_vars /\ WF_vars(AdaptiveNext)

\* blocked_autorange called again and again by a caller that keeps the
\* latest record, with collaborators that raise nothing
RepeatNext ==
    \/ blocked_autorange
    \/ EstOverhead \/ EstProbe \/ EstEnter \/ EstIterate \/ EstReturn
    \/ LoopEnter \/ TimeHook \/ Callback \/ StopHook \/ LoopReturn
    \/ FinishKeep \/ MutatePrev

RepeatSpec == Init /\ [][RepeatNext]_vars

\* ================================================================ claims
LoopOps == {"_threaded_measurement_loop", "blocked_autorange", "adaptive_autorange"}
LoopPcs == {"loop_test", "callback", "stop_hook"}
LoopReturned == pc = "done" /\ op \in LoopOps /\ result.kind \in {"times", "record"}

\* C1: the measurement loop never returns with the sum of the returned sample
\* durations below min_run_time, unless max_run_time was set and the sum
\* exceeded max_run_time.
C1_MinRunTimeFloor ==
    LoopReturned =>
        \/ Sum(result.times) >= min_run_time
        \/ max_run_time # None /\ Sum(result.times) > max_run_time[1]

C1_Witness ==
    /\ LoopReturned
    /\ min_run_time >= 2
    /\ Len(result.times) >= 2
    /\ Sum(result.times) >= min_run_time
    /\ can_stop

\* C2: once max_run_time is set (not None) and total_time exceeds it, no
\* further sample is taken, and the ceiling check that follows the stop-hook
\* leaves the loop with a normal return of the samples collected so far.
C2_MaxRunTimeStops ==
    [][(pc \in LoopPcs /\ max_run_time # None /\ total_time > max_run_time[1]) =>
        /\ times' = times
        /\ (pc = "stop_hook" /\ result'.kind # "error") =>
             (pc' = "done" /\ result'.kind \in {"times", "record"}
                           /\ result'.times = times)]_vars

\* C3: adaptive_autorange with a positive max_run_time, sample durations
\* bounded below by a positive constant and meets_confidence always false:
\* the measurement loop eventually returns a record, and the samples before
\* the last one fit within max_run_time.
C3_AdaptiveTerminates ==
    (/\ op = "adaptive_autorange" /\ pc = "loop_enter"
     /\ max_run_time # None /\ max_run_time[1] > 0
     /\ minDur > 0 /\ confident = "never")
    ~> (/\ pc = "done" /\ op = "adaptive_autorange" /\ result.kind = "record"
        /\ max_run_time # None
        /\ Sum(SubSeq(result.times, 1, Len(result.times) - 1)) <= max_run_time[1])

C3_Witness ==
    /\ pc = "done" /\ op = "adaptive_autorange" /\ result.kind = "record"
    /\ max_run_time # None /\ max_run_time[1] > 0
    /\ minDur > 0 /\ confident = "never"
    /\ Len(result.times) >= 2
    /\ Sum(result.times) > max_run_time[1]
    /\ ~can_stop

\* C4: a supplied callback is invoked exactly once per sample with (number,
\* that sample's duration), in the order of the samples, and before the
\* stop-hook is evaluated for the same sample.
C4_CallbackOrder ==
    (op \in LoopOps /\ callback) =>
        /\ Len(cbLog) = IF pc = "callback" THEN Len(times) - 1 ELSE Len(times)
        /\ \A i \in DOMAIN cbLog : cbLog[i] = <<number, times[i]>>
        /\ \A i \in DOMAIN hookLog : hookLog[i].n = i
        /\ Len(hookLog) <= Len(cbLog)

C4_Witness ==
    /\ op \in LoopOps /\ callback
    /\ pc = "loop_test"
    /\ Len(times) = 2 /\ times[1] # times[2]
    /\ Len(cbLog) = 2 /\ Len(hookLog) = 2

\* C5: the thread-count scope is entered before the first sample, every
\* sample is timed under the Timer's thread count, and the prior thread count
\* is back in force after every exit: return, break on max_run_time, and an
\* exception of the timed work, the callback or the stop-hook, which reaches
\* the caller as it was raised.
C5_ThreadScope ==
    /\ \A i \in DOMAIN calls :
          calls[i].what = "sample" => calls[i].threads = num_threads
    /\ pc \in LoopPcs => (torch_threads = num_threads /\ saved = <<HostThreads>>)
    /\ pc \in {"idle", "done"} => (torch_threads = HostThreads /\ saved = <<>>)
    /\ (pc = "done" /\ op \in LoopOps /\ result.kind = "error") =>
          result.error \in {"WorkError", "CallbackError", "StopHookError",
                            "ZeroDivisionError"}

C5_Witness ==
    /\ pc = "done" /\ op \in LoopOps
    /\ result.kind = "error" /\ result.error = "CallbackError"
    /\ Len(times) >= 2
    /\ torch_threads = HostThreads
    /\ calls[Len(calls)].what = "sample" /\ calls[Len(calls)].threads = num_threads

\* C6: Timer.timeit with number < 1 ends in an error and never in a record.
C6_TimeitRejectsNumberBelowOne ==
    (pc = "done" /\ op = "timeit" /\ number < 1) => result.kind = "error"

\* C7: for number >= 1 a returned Timer.timeit made exactly two invocations of
\* the timed callable, the warm-up of max(number // 100, 1) repeats outside
\* the thread scope and then the sample of number repeats inside it; the
\* record has that one sample and number_per_run = number.
C7_TimeitTwoCalls ==
    (pc = "done" /\ op = "timeit" /\ number >= 1 /\ result.kind = "record") =>
        /\ Len(calls) = 2
        /\ calls[1] = [n |-> IF number >= 100 THEN number \div 100 ELSE 1,
                       what |-> "warmup", threads |-> HostThreads]
        /\ calls[2] = [n |-> number, what |-> "sample", threads |-> num_threads]
        /\ Len(result.times) = 1
        /\ result.times = times
        /\ result.number_per_run = number

C7_Witness ==
    /\ pc = "done" /\ op = "timeit" /\ result.kind = "record"
    /\ number = 250
    /\ calls[1].n = 2

RECURSIVE Pow10(_)
Pow10(k) == IF k = 0 THEN 1 ELSE 10 * Pow10(k - 1)

\* C8: _estimate_block_size returns a power of ten >= 1 reached by 1, 10,
\* 100, ...; with overhead 0 the returned number is the first of that sequence
\* whose calibration timing is >= min_run_time / 1000.
C8_EstimateSmallestNumber ==
    pc = "est_return" =>
        /\ number >= 1
        /\ number = Pow10(Len(cal) - 1)
        /\ \A i \in DOMAIN cal : cal[i][1] = Pow10(i - 1)
        /\ overhead = 0 =>
              /\ cal[Len(cal)][2] * 1000 >= est_min_run_time
              /\ \A i \in 1..(Len(cal) - 1) : cal[i][2] * 1000 < est_min_run_time

CeilDiv(a, d) == (a + d - 1) \div d

ConstantPositive(ts) == ts # <<>> /\ ts[1] > 0 /\ \A i \in DOMAIN ts : ts[i] = ts[1]

BlockedReturned ==
    /\ pc = "done" /\ op = "blocked_autorange" /\ result.kind = "record"
    /\ ConstantPositive(result.times)

\* C9 as stated: blocked_autorange with a constant positive sample duration d
\* returns exactly ceil(min_run_time / d) samples and number_per_run is the
\* estimator's number.
C9_ExactSampleCount ==
    BlockedReturned =>
        /\ Len(result.times) = CeilDiv(min_run_time, result.times[1])
        /\ result.number_per_run = number

\* C9 amended: blocked_autorange with a constant positive sample duration d
\* returns exactly the smallest k >= 1 with k * d >= min_run_time, that is
\* max(1, ceil(min_run_time / d)) samples, and number_per_run is the
\* estimator's number.
C9_ExactSampleCountAtLeastOne ==
    BlockedReturned =>
        /\ Len(result.times) = Max(1, CeilDiv(min_run_time, result.times[1]))
        /\ result.number_per_run = number

C9_Witness ==
    /\ BlockedReturned
    /\ min_run_time = 3
    /\ result.times = <<2, 2>>
    /\ result.number_per_run = 10

\* C10: repeat and autorange always end at once in the unsupported-operation
\* error: no invocation of the timed callable, no thread scope, no record.
C10_LegacyAlwaysFails ==
    op \in {"repeat", "autorange"} =>
        /\ pc = "done"
        /\ result.kind = "error" /\ result.error = "NotImplementedError"
        /\ calls = <<>>
        /\ torch_threads = HostThreads /\ saved = <<>>

C10_Witness ==
    /\ op = "repeat" /\ pc = "done" /\ number = 250
    /\ result.error = "NotImplementedError"

\* C11: every record a strategy returns has a non-empty times sequence and
\* number_per_run >= 1.
C11_RecordWellFormed ==
    (pc = "done" /\ result.kind = "record") =>
        /\ Len(result.times) >= 1
        /\ result.number_per_run >= 1

\* C13 as stated: the stop-hook is never evaluated for a sample after which
\* total_time is still below min_run_time.
C13_StopHookOnlyAfterFloor ==
    \A i \in DOMAIN hookLog : hookLog[i].total >= min_run_time

\* C13 amended: the stop-hook is evaluated after every sample, also while
\* total_time is below min_run_time, and whatever it returns the loop returns
\* below min_run_time only through the ceiling check.
C13_FloorWhateverStopHook ==
    /\ (op \in LoopOps /\ pc = "loop_test") => Len(hookLog) = Len(times)
    /\ \A i \in DOMAIN hookLog :
          /\ hookLog[i].n = i
          /\ hookLog[i].total = Sum(SubSeq(times, 1, i))
    /\ (LoopReturned /\ total_time < min_run_time) =>
          (max_run_time # None /\ max_run_time[1] # 0 /\ total_time > max_run_time[1])

C13_Witness ==
    /\ op \in LoopOps /\ pc = "loop_test"
    /\ can_stop
    /\ Len(hookLog) >= 2
    /\ total_time > 0 /\ total_time < min_run_time

\* C14: while the calibration timing stays 0 the estimator stops within a
\* bounded number of geometric steps (here: within the MaxSteps steps explored).
C14_EstimatorStopsOnZeroTimings ==
    (pc = "est_loop" /\ cal # <<>> /\ \A i \in DOMAIN cal : cal[i][2] = 0) =>
        Len(cal) < MaxSteps

\* C15: with overhead 0 the estimator raises no division fault for any
\* calibration timing, and exits at number = 1 whenever the first timing is
\* >= min_run_time / 1000.
C15_ZeroOverheadNoFault ==
    (overhead = 0 /\ cal # <<>>) =>
        /\ result.error # "ZeroDivisionError"
        /\ cal[1][2] * 1000 >= est_min_run_time =>
              (pc \in {"est_return", "done"} /\ number = 1)

\* does the i-th calibration timing satisfy (overhead / time_taken <= 1e-4 and
\* time_taken >= min_run_time / 1000) or time_taken > min_run_time; the
\* quotient by a zero timing satisfies no bound
CalStops(i) ==
    \/ /\ cal[i][2] > 0
       /\ overhead * 10000 <= cal[i][2]
       /\ cal[i][2] * 1000 >= est_min_run_time
    \/ cal[i][2] > est_min_run_time

\* C16: the estimator returns at the first power of ten whose calibration
\* timing satisfies the overhead-and-floor condition or exceeds min_run_time,
\* also when the relative overhead is above 1e-4; no smaller power tried
\* satisfied either.
C16_EarlyExitOnLongBlock ==
    pc = "est_return" =>
        /\ cal[Len(cal)][1] = number
        /\ CalStops(Len(cal))
        /\ \A i \in 1..(Len(cal) - 1) : ~CalStops(i)

C16_Witness ==
    /\ pc = "est_return"
    /\ Len(cal) = 2
    /\ time_taken > est_min_run_time
    /\ overhead * 10000 > time_taken

\* C18: with check_cache_speedup the uncached probe is the one call after the
\* five overhead timings and before the calibration calls, and the returned
\* cache_speedup is uncached_time / (time_taken / number) of the last
\* calibration, 1 when uncached_time = time_taken / number; without it the
\* probe is not taken and cache_speedup is 0.0.
C18_CacheSpeedup ==
    pc = "est_return" =>
        /\ time_taken = cal[Len(cal)][2] /\ number = cal[Len(cal)][1]
        /\ \A i \in DOMAIN calls : i <= 5 => (calls[i].what = "overhead" /\ calls[i].n = 0)
        /\ IF check_cache_speedup
           THEN /\ Len(calls) = 6 + Len(cal)
                /\ calls[6].what = "uncached" /\ calls[6].n = 1
                /\ \A i \in DOMAIN cal :
                      calls[6 + i].what = "calibrate" /\ calls[6 + i].n = cal[i][1]
                /\ cache_speedup[1] * time_taken
                      = cache_speedup[2] * uncached_time * number
                /\ cache_speedup[2] > 0
                /\ uncached_time * number = time_taken => cache_speedup = <<1, 1>>
           ELSE /\ Len(calls) = 5 + Len(cal)
                /\ \A i \in DOMAIN calls : calls[i].what # "uncached"
                /\ cache_speedup = ZeroSpeedup

C18_Witness ==
    /\ pc = "est_return" /\ check_cache_speedup
    /\ number = 10 /\ uncached_time = 1 /\ time_taken = 10000
    /\ cache_speedup = <<1, 1000>>

\* C20: a max_run_time of 0 never ends the loop: the loop returns only with
\* total_time >= min_run_time and a true stop-hook result, and with the
\* adaptive stop-hook never confident it does not return at all.
C20_ZeroCeilingIsNoCeiling ==
    (op \in LoopOps /\ max_run_time = Some(0)) =>
        /\ LoopReturned => (total_time >= min_run_time /\ can_stop)
        /\ (stop_hook = "adaptive" /\ confident = "never") => ~LoopReturned

C20_Witness ==
    /\ op = "adaptive_autorange" /\ max_run_time = Some(0)
    /\ confident = "never"
    /\ pc = "loop_test"
    /\ Len(times) >= 4 /\ min_run_time > 0 /\ total_time > min_run_time
    /\ ~can_stop

\* C17: in adaptive_autorange the stop-hook returns false, without building a
\* record, while 3 or fewer samples exist; from the 4th sample on it asks a
\* provisional record made of all samples so far, with the number and thread
\* count of the final record; a record of fewer than 4 samples is returned
\* only after total_time exceeded max_run_time.
C17_AdaptiveStopHook ==
    op = "adaptive_autorange" =>
        /\ Len(times) <= 3 => ~can_stop
        /\ \A i \in DOMAIN hookLog :
              IF i <= 3
              THEN hookLog[i].provisional = NoResult
              ELSE /\ hookLog[i].provisional.kind = "record"
                   /\ hookLog[i].provisional.times = SubSeq(times, 1, i)
                   /\ hookLog[i].provisional.number_per_run = number
                   /\ hookLog[i].provisional.num_threads = num_threads
        /\ LoopReturned =>
              /\ result.number_per_run = number
              /\ result.num_threads = num_threads
              /\ Len(result.times) < 4 =>
                    (max_run_time # None /\ total_time > max_run_time[1])

C17_Witness ==
    /\ op = "adaptive_autorange" /\ LoopReturned
    /\ max_run_time = None
    /\ Len(result.times) = 4 /\ can_stop
    /\ hookLog[4].provisional.times = result.times

\* the samples the running call has taken so far
SamplesTaken == Cardinality({i \in DOMAIN calls : calls[i].what = "sample"})

\* the running call's accumulators hold its own samples only, in a list object
\* of its own
FreshAccumulators ==
    (prev.id # 0 /\ pc \in LoopPcs \cup {"done"}) =>
        /\ times_id # prev.id
        /\ Len(times) = SamplesTaken
        /\ total_time = Sum(times)
        /\ hookLog = <<>> => ~can_stop

\* C12: a later call of the same strategy starts from a fresh empty times,
\* total_time = 0 and can_stop = false and collects its own samples only;
\* emptying the earlier record's times changes neither the later call's times
\* nor its record, and appending a sample to the later times leaves the
\* earlier record alone.
C12_IndependentRecords ==
    [][/\ FreshAccumulators'
       /\ (prev.id # 0 /\ prev'.id = prev.id /\ prev'.times # prev.times) =>
             (times' = times /\ result' = result)
       /\ (prev.id # 0 /\ pc = "loop_test" /\ Len(times') > Len(times)) =>
             prev' = prev]_vars

C12_Witness ==
    /\ LoopReturned
    /\ prev.id # 0 /\ prev.times = <<>>
    /\ Len(result.times) >= 2 /\ times = result.times

\* C19 as stated: can_stop is a latch, once true it stays true for the rest
\* of the loop.
C19_CanStopLatch ==
    [][(pc \in LoopPcs /\ pc' \in LoopPcs /\ can_stop) => can_stop']_vars

\* C19 amended: can_stop starts false and after every sample holds the result
\* of the latest stop-hook evaluation, so a false result after a true one
\* resets it; the loop returns, other than through the ceiling, only when the
\* latest result was true and total_time >= min_run_time.
C19_CanStopIsLatestResult ==
    (op \in LoopOps /\ pc \in LoopPcs \cup {"done"}) =>
        /\ hook_last = None => ~can_stop
        /\ hook_last # None => can_stop = hook_last[1]
        /\ (LoopReturned /\ ~MaxExceeded(max_run_time, total_time)) =>
              (hook_last = Some(TRUE) /\ total_time >= min_run_time)

C19_Witness ==
    /\ op \in LoopOps /\ pc = "loop_test"
    /\ hook_true /\ hook_last = Some(FALSE)
    /\ ~can_stop
    /\ min_run_time > 0 /\ total_time >= min_run_time
====
